---- MODULE Spec2Model ----
(***************************************************************************)
(* Enterprise AI Gateway (src/app.py): a Streamlit script that, for every  *)
(* submitted prompt, counts tokens, estimates the cost on two tiers, scans *)
(* for PII and redacts it, routes on a token threshold, accumulates the    *)
(* session savings, shows the decision and executes the model call.        *)
(*                                                                         *)
(* Text is modelled as a sequence of chunks: "w" an ordinary word, "d" a   *)
(* group of digits, "@" an at-sign, "F" a filler passage of FillerTokens   *)
(* ordinary words, "M" the redaction marker.  Money is an exact integer    *)
(* number of 1e-8 dollars, so the script's float arithmetic is modelled    *)
(* without rounding.                                                       *)
(***************************************************************************)
EXTENDS Integers, Sequences, FiniteSets, TLC

(* ---------------- bounds of the model ---------------- *)
MaxLen == 3
MaxRequests == 2
FillerTokens == 47
NumWorkers == 2

(* ---------------- configuration, app.py:10-13 ---------------- *)
PRICE_GPT4 == 3000000
PRICE_MINI == 15000
TOKEN_THRESHOLD == 50

Strict == "Strict (Block & Redact)"
AuditOnly == "Audit Only (Log It)"
ComplianceModes == {Strict, AuditOnly}
ApiKeys == {"", "sk"}
Entities == {"PHONE_NUMBER", "EMAIL_ADDRESS", "CREDIT_CARD", "US_SSN"}

Chunks == {"w", "d", "@"}
Filler == "F"
Marker == "M"

SeqsUpTo(S, n) == UNION {[1..k -> S] : k \in 0..n}

\* what st.chat_input can deliver: a non-empty text
Prompts ==
    {s \in SeqsUpTo(Chunks, MaxLen) : Len(s) > 0}
        \cup {<<Filler>> \o s : s \in SeqsUpTo(Chunks, MaxLen)}

(* ---------------- helper functions ---------------- *)
ChunkTokens(c) == IF c = Filler THEN FillerTokens ELSE 1

RECURSIVE EncodeLen(_)
EncodeLen(text) ==
    IF text = <<>> THEN 0 ELSE ChunkTokens(Head(text)) + EncodeLen(Tail(text))

get_token_count(text) == EncodeLen(text)

\* maximal runs of digit groups, as <<first, last>> positions
DigitRuns(text) ==
    {r \in (1..Len(text)) \X (1..Len(text)) :
        /\ r[1] <= r[2]
        /\ \A k \in r[1]..r[2] : text[k] = "d"
        /\ (r[1] = 1 \/ text[r[1] - 1] # "d")
        /\ (r[2] = Len(text) \/ text[r[2] + 1] # "d")}

RunLen(r) == r[2] - r[1] + 1

Finding(type, first, last) ==
    [entity_type |-> type, start |-> first - 1, end |-> last]

\* analyzer.analyze(text, entities=[...], language='en'), the recognisers of
\* the library reduced to chunk patterns: a run of digit groups is a phone
\* number, a run of two also a social security number, a run of three or more
\* also a card number, and x@y is an email address.  Findings of different
\* entities overlap, as the library's do.
Analyze(text) ==
    {Finding("PHONE_NUMBER", r[1], r[2]) : r \in DigitRuns(text)}
    \cup {Finding("US_SSN", r[1], r[2]) : r \in {q \in DigitRuns(text) : RunLen(q) = 2}}
    \cup {Finding("CREDIT_CARD", r[1], r[2]) : r \in {q \in DigitRuns(text) : RunLen(q) >= 3}}
    \cup {Finding("EMAIL_ADDRESS", i - 1, i + 1) :
            i \in {j \in 2..(Len(text) - 1) :
                     /\ text[j] = "@"
                     /\ text[j - 1] \in {"w", "d"}
                     /\ text[j + 1] \in {"w", "d"}}}

Covers(r, k) == r.start < k /\ k <= r.end
Covered(results, k) == \E r \in results : Covers(r, k)
\* position k opens a new merged span: no finding joins it to position k-1
OpensSpan(results, k) ==
    /\ Covered(results, k)
    /\ (k = 1 \/ ~ \E r \in results : Covers(r, k - 1) /\ Covers(r, k))

RECURSIVE AnonymizeFrom(_, _, _)
AnonymizeFrom(text, results, k) ==
    IF k > Len(text) THEN <<>>
    ELSE (IF OpensSpan(results, k) THEN <<Marker>>
          ELSE IF Covered(results, k) THEN <<>>
          ELSE <<text[k]>>) \o AnonymizeFrom(text, results, k + 1)

\* anonymizer.anonymize(text, analyzer_results): overlapping findings are
\* merged and every merged span is replaced by the marker
Anonymize(text, results) == AnonymizeFrom(text, results, 1)

\* scan_and_redact(text) -> (anonymized text, len(results))
scan_and_redact(text) ==
    [text |-> Anonymize(text, Analyze(text)), count |-> Cardinality(Analyze(text))]

EstCost(tokens_, price) == (tokens_ * price) \div 1000

\* the comparison written as "not longer than the threshold"
RouteModel_le(tokens_) ==
    IF tokens_ <= TOKEN_THRESHOLD THEN "gpt-4o-mini" ELSE "gpt-4o"

RouteModel(tokens_) ==
    IF tokens_ < TOKEN_THRESHOLD THEN "gpt-4o-mini" ELSE "gpt-4o"

RouteCost(tokens_, cost_high) ==
    IF tokens_ < TOKEN_THRESHOLD THEN EstCost(tokens_, PRICE_MINI) ELSE cost_high

RouteReason(tokens_) ==
    IF tokens_ < TOKEN_THRESHOLD THEN "Low complexity (Token count < 50)"
    ELSE "High complexity"

\* the operands of the subtraction exchanged
Savings_swapped(cost_high, cost_actual) == cost_actual - cost_high

Savings(cost_high, cost_actual) == cost_high - cost_actual

\* "=" written for "+="
Accumulate_assign(total, delta) == delta

\* st.session_state.total_savings += savings
Accumulate(total, delta) == total + delta

\* the exception swallowed by a handler: the run goes on as if scanned
OnRecognitionFailure_swallow == "Scanned"

\* nothing catches an exception of the engines: the run of the script ends
OnRecognitionFailure == "Aborted"

\* the Strict branch forwarding the raw prompt
FinalPrompt_raw(prompt_, clean, count, mode) == prompt_

\* the redacted text forwarded whatever the mode
FinalPrompt_alwaysClean(prompt_, clean, count, mode) ==
    IF count > 0 THEN clean ELSE prompt_

\* the PII check of the decision display
FinalPrompt(prompt_, clean, count, mode) ==
    IF count > 0
    THEN (IF mode = Strict THEN clean ELSE prompt_)
    ELSE prompt_

\* the PII branch taken on "count >= 0"
DecisionMessages_ge(count, mode) ==
    IF count >= 0
    THEN (IF mode = Strict THEN {"pii_warning", "redacted_success"}
          ELSE {"pii_warning", "audit_error"})
    ELSE {"no_pii_info"}

DecisionMessages(count, mode) ==
    IF count > 0
    THEN (IF mode = Strict THEN {"pii_warning", "redacted_success"}
          ELSE {"pii_warning", "audit_error"})
    ELSE {"no_pii_info"}

RECURSIVE SumSeq(_)
SumSeq(s) == IF s = <<>> THEN 0 ELSE Head(s) + SumSeq(Tail(s))

RECURSIVE Reverse(_)
Reverse(s) == IF s = <<>> THEN <<>> ELSE Reverse(Tail(s)) \o <<Head(s)>>

(* ---------------- state ---------------- *)
VARIABLES
    total_savings,     \* st.session_state.total_savings
    compliance_mode,   \* sidebar radio
    api_key,           \* sidebar text input
    os_environ_key,    \* os.environ["OPENAI_API_KEY"]
    metric_shown,      \* value rendered by st.metric in the sidebar
    pc,                \* position of the script run
    prompt,            \* st.chat_input value of the run
    tokens, est_cost_high, clean_prompt, pii_count,
    model_used, est_cost_actual, route_reason, savings, final_prompt,
    shown,             \* messages rendered for the request
    provider_call,     \* the chat.completions.create call of the request
    history,           \* savings recorded so far, in order
    nreq,              \* requests submitted so far
    recognizer_failed, \* the PII engines raised during the run
    wpc, wsavings, wloaded   \* concurrent request handlers on one ledger

vars == <<total_savings, compliance_mode, api_key, os_environ_key, metric_shown,
          pc, prompt, tokens, est_cost_high, clean_prompt, pii_count,
          model_used, est_cost_actual, route_reason, savings, final_prompt,
          shown, provider_call, history, nreq, recognizer_failed,
          wpc, wsavings, wloaded>>

settings == <<compliance_mode, api_key, os_environ_key>>
locals == <<tokens, est_cost_high, clean_prompt, pii_count, model_used,
            est_cost_actual, route_reason, savings, final_prompt>>
workers == <<wpc, wsavings, wloaded>>

Workers == 1..NumWorkers
NoCall == [model |-> "", content |-> <<>>]
Finished == {"Executed", "Aborted"}

\* the forwarded text kept across runs (as if stored in the session state)
FreshLocals_keep ==
    /\ tokens' = -1
    /\ est_cost_high' = -1
    /\ clean_prompt' = <<>>
    /\ pii_count' = -1
    /\ model_used' = ""
    /\ est_cost_actual' = -1
    /\ route_reason' = ""
    /\ savings' = -1
    /\ final_prompt' = final_prompt

\* every run of the script starts with new local variables
FreshLocals ==
    /\ tokens' = -1
    /\ est_cost_high' = -1
    /\ clean_prompt' = <<>>
    /\ pii_count' = -1
    /\ model_used' = ""
    /\ est_cost_actual' = -1
    /\ route_reason' = ""
    /\ savings' = -1
    /\ final_prompt' = <<>>

\* the state after the first run of the script: nothing submitted yet
Init ==
    /\ total_savings = 0
    /\ compliance_mode = Strict
    /\ api_key = ""
    /\ os_environ_key = ""
    /\ metric_shown = 0
    /\ pc = "Idle"
    /\ prompt = <<>>
    /\ tokens = -1
    /\ est_cost_high = -1
    /\ clean_prompt = <<>>
    /\ pii_count = -1
    /\ model_used = ""
    /\ est_cost_actual = -1
    /\ route_reason = ""
    /\ savings = -1
    /\ final_prompt = <<>>
    /\ shown = {}
    /\ provider_call = NoCall
    /\ history = <<>>
    /\ nreq = 0
    /\ recognizer_failed = FALSE
    /\ wpc = [w \in Workers |-> "off"]
    /\ wsavings = [w \in Workers |-> 0]
    /\ wloaded = [w \in Workers |-> 0]

(* ---------------- reruns without a prompt ---------------- *)
\* the admin picks a compliance mode: the script reruns, prompt is None
SetComplianceMode(m) ==
    /\ pc = "Idle"
    /\ m # compliance_mode
    /\ compliance_mode' = m
    /\ metric_shown' = total_savings
    /\ UNCHANGED <<total_savings, api_key, os_environ_key, pc, prompt, locals,
                   shown, provider_call, history, nreq, recognizer_failed,
                   workers>>

\* the admin types (or clears) the API key: the script reruns, prompt is None
SetApiKey(k) ==
    /\ pc = "Idle"
    /\ k # api_key
    /\ api_key' = k
    /\ os_environ_key' = IF k # "" THEN k ELSE os_environ_key
    /\ metric_shown' = total_savings
    /\ UNCHANGED <<total_savings, compliance_mode, pc, prompt, locals, shown,
                   provider_call, history, nreq, recognizer_failed, workers>>

(* ---------------- one request ---------------- *)
\* the user submits a prompt: a new run of the script starts
Submit(p) ==
    /\ pc = "Idle"
    /\ nreq < MaxRequests
    /\ nreq' = nreq + 1
    /\ prompt' = p
    /\ pc' = "Received"
    /\ FreshLocals
    /\ shown' = {}
    /\ provider_call' = NoCall
    /\ recognizer_failed' = FALSE
    /\ UNCHANGED <<total_savings, settings, metric_shown, history, workers>>

\* AnalyzerEngine() / AnonymizerEngine() raise: the run stops at once
EngineInitFail ==
    /\ pc = "Received"
    /\ pc' = OnRecognitionFailure
    /\ recognizer_failed' = TRUE
    /\ shown' = {"exception"}
    /\ UNCHANGED <<total_savings, settings, metric_shown, prompt, locals,
                   provider_call, history, nreq, workers>>

\* engines built, sidebar rendered, tokens = get_token_count(prompt)
CountTokens ==
    /\ pc = "Received"
    /\ metric_shown' = total_savings
    /\ tokens' = get_token_count(prompt)
    /\ pc' = "TokenCounted"
    /\ UNCHANGED <<total_savings, settings, prompt, est_cost_high, clean_prompt,
                   pii_count, model_used, est_cost_actual, route_reason, savings,
                   final_prompt, shown, provider_call, history, nreq, recognizer_failed, workers>>

EstimateHigh ==
    /\ pc = "TokenCounted"
    /\ est_cost_high' = EstCost(tokens, PRICE_GPT4)
    /\ pc' = "CostEstimated"
    /\ UNCHANGED <<total_savings, settings, metric_shown, prompt, tokens,
                   clean_prompt, pii_count, model_used, est_cost_actual,
                   route_reason, savings, final_prompt, shown, provider_call,
                   history, nreq, recognizer_failed, workers>>

\* clean_prompt, pii_count = scan_and_redact(prompt)
Scan ==
    /\ pc = "CostEstimated"
    /\ clean_prompt' = scan_and_redact(prompt).text
    /\ pii_count' = scan_and_redact(prompt).count
    /\ pc' = "Scanned"
    /\ UNCHANGED <<total_savings, settings, metric_shown, prompt, tokens,
                   est_cost_high, model_used, est_cost_actual, route_reason,
                   savings, final_prompt, shown, provider_call, history, nreq,
                   recognizer_failed, workers>>

\* analyze / anonymize raises inside scan_and_redact: nothing catches it
ScanFail ==
    /\ pc = "CostEstimated"
    /\ pc' = OnRecognitionFailure
    /\ recognizer_failed' = TRUE
    /\ shown' = {"exception"}
    /\ UNCHANGED <<total_savings, settings, metric_shown, prompt, locals,
                   provider_call, history, nreq, workers>>

Route ==
    /\ pc = "Scanned"
    /\ model_used' = RouteModel(tokens)
    /\ est_cost_actual' = RouteCost(tokens, est_cost_high)
    /\ route_reason' = RouteReason(tokens)
    /\ pc' = "Routed"
    /\ UNCHANGED <<total_savings, settings, metric_shown, prompt, tokens,
                   est_cost_high, clean_prompt, pii_count, savings, final_prompt,
                   shown, provider_call, history, nreq, recognizer_failed, workers>>

\* savings = est_cost_high - est_cost_actual; total_savings += savings
UpdateLedger ==
    /\ pc = "Routed"
    /\ savings' = Savings(est_cost_high, est_cost_actual)
    /\ total_savings' = Accumulate(total_savings, Savings(est_cost_high, est_cost_actual))
    /\ history' = Append(history, Savings(est_cost_high, est_cost_actual))
    /\ pc' = "LedgerUpdated"
    /\ UNCHANGED <<settings, metric_shown, prompt, tokens, est_cost_high,
                   clean_prompt, pii_count, model_used, est_cost_actual,
                   route_reason, final_prompt, shown, provider_call, nreq,
                   recognizer_failed, workers>>

\* the st.status block: token audit, PII check, routing decision
Decide ==
    /\ pc = "LedgerUpdated"
    /\ final_prompt' = FinalPrompt(prompt, clean_prompt, pii_count, compliance_mode)
    /\ shown' = DecisionMessages(pii_count, compliance_mode)
    /\ pc' = "Emitted"
    /\ UNCHANGED <<total_savings, settings, metric_shown, prompt, tokens,
                   est_cost_high, clean_prompt, pii_count, model_used,
                   est_cost_actual, route_reason, savings, provider_call,
                   history, nreq, recognizer_failed, workers>>

ExecuteMessages(key, ok) ==
    IF key = "" THEN {"credential_warning", "simulated_output"}
    ELSE IF ok THEN {"model_stream"} ELSE {"api_error"}

\* the provider called without looking at the key
ExecuteCall_always(key, model, content) == [model |-> model, content |-> content]

ExecuteCall(key, model, content) ==
    IF key = "" THEN NoCall ELSE [model |-> model, content |-> content]

\* the assistant chat message: simulated output, or the OpenAI call
Execute(ok) ==
    /\ pc = "Emitted"
    /\ (api_key = "" => ok)
    /\ shown' = shown \cup ExecuteMessages(api_key, ok)
    /\ provider_call' = ExecuteCall(api_key, model_used, final_prompt)
    /\ pc' = "Executed"
    /\ UNCHANGED <<total_savings, settings, metric_shown, prompt, locals,
                   history, nreq, recognizer_failed, workers>>

\* the run of the script is over: its variables are gone, the script waits
\* for the next event of the session
EndRun ==
    /\ pc \in Finished
    /\ pc' = "Idle"
    /\ prompt' = <<>>
    /\ FreshLocals
    /\ shown' = {}
    /\ provider_call' = NoCall
    /\ recognizer_failed' = FALSE
    /\ UNCHANGED <<total_savings, settings, metric_shown, history, nreq, workers>>

Next ==
    \/ \E m \in ComplianceModes : SetComplianceMode(m)
    \/ \E k \in ApiKeys : SetApiKey(k)
    \/ \E p \in Prompts : Submit(p)
    \/ EngineInitFail
    \/ CountTokens
    \/ EstimateHigh
    \/ Scan
    \/ ScanFail
    \/ Route
    \/ UpdateLedger
    \/ Decide
    \/ \E ok \in BOOLEAN : Execute(ok)
    \/ EndRun

Spec == Init /\ [][Next]_vars

(* ---------------- concurrent handlers on one session ledger ---------------- *)
\* Two or more runs of the request code against the same st.session_state.
\* "total_savings += savings" is a load of the attribute, an addition and a
\* store of the attribute, with nothing that holds the ledger in between.
single_run == <<compliance_mode, api_key, os_environ_key, metric_shown, pc,
                prompt, tokens, est_cost_high, clean_prompt, pii_count,
                model_used, est_cost_actual, route_reason, savings, final_prompt,
                shown, provider_call, nreq, recognizer_failed>>

RequestSavings(text) ==
    Savings(EstCost(get_token_count(text), PRICE_GPT4),
            RouteCost(get_token_count(text), EstCost(get_token_count(text), PRICE_GPT4)))

InitConc ==
    /\ total_savings = 0
    /\ compliance_mode = Strict
    /\ api_key = ""
    /\ os_environ_key = ""
    /\ metric_shown = 0
    /\ pc = "Idle"
    /\ prompt = <<>>
    /\ tokens = -1
    /\ est_cost_high = -1
    /\ clean_prompt = <<>>
    /\ pii_count = -1
    /\ model_used = ""
    /\ est_cost_actual = -1
    /\ route_reason = ""
    /\ savings = -1
    /\ final_prompt = <<>>
    /\ shown = {}
    /\ provider_call = NoCall
    /\ history = <<>>
    /\ nreq = 0
    /\ recognizer_failed = FALSE
    /\ wpc = [w \in Workers |-> "ready"]
    /\ wsavings = [w \in Workers |-> 0]
    /\ wloaded = [w \in Workers |-> 0]

\* lines 70-86 of the run of handler w: everything up to the savings
WCompute(w, p) ==
    /\ wpc[w] = "ready"
    /\ wsavings' = [wsavings EXCEPT ![w] = RequestSavings(p)]
    /\ wpc' = [wpc EXCEPT ![w] = "computed"]
    /\ UNCHANGED <<total_savings, history, wloaded, single_run>>

\* line 87, first half: read st.session_state.total_savings
WLoad(w) ==
    /\ wpc[w] = "computed"
    /\ wloaded' = [wloaded EXCEPT ![w] = total_savings]
    /\ wpc' = [wpc EXCEPT ![w] = "loaded"]
    /\ UNCHANGED <<total_savings, history, wsavings, single_run>>

\* line 87, second half: write st.session_state.total_savings
WStore(w) ==
    /\ wpc[w] = "loaded"
    /\ total_savings' = Accumulate(wloaded[w], wsavings[w])
    /\ history' = Append(history, wsavings[w])
    /\ wpc' = [wpc EXCEPT ![w] = "done"]
    /\ UNCHANGED <<wsavings, wloaded, single_run>>

NextConc ==
    \/ \E w \in Workers : \E p \in Prompts : WCompute(w, p)
    \/ \E w \in Workers : WLoad(w)
    \/ \E w \in Workers : WStore(w)

SpecConc == InitConc /\ [][NextConc]_vars

(* ---------------- properties ---------------- *)
MaxTokens == FillerTokens + MaxLen
PostScan == {"Scanned", "Routed", "LedgerUpdated", "Emitted", "Executed"}
PostRoute == {"Routed", "LedgerUpdated", "Emitted", "Executed"}
PostLedger == {"LedgerUpdated", "Emitted", "Executed"}
PostDecide == {"Emitted", "Executed"}
PreDecide == {"Received", "TokenCounted", "CostEstimated", "Scanned", "Routed",
              "LedgerUpdated"}

\* the chunks of text outside every finding, in order
RECURSIVE KeptFrom(_, _, _)
KeptFrom(text, results, k) ==
    IF k > Len(text) THEN <<>>
    ELSE (IF \E r \in results : r.start < k /\ k <= r.end THEN <<>> ELSE <<text[k]>>)
         \o KeptFrom(text, results, k + 1)

IsNotMarker(c) == c # "M"

\* out is text with every chunk of every finding gone and markers in their place
NoSpanSurvives(text, results, out) ==
    /\ SelectSeq(out, IsNotMarker) = KeptFrom(text, results, 1)
    /\ \E i \in 1..Len(out) : out[i] = "M"

Overlap(a, b) == a # b /\ a.start < b.end /\ b.start < a.end

C2_StrictForwardsRedacted ==
    (pc \in PostDecide /\ compliance_mode = Strict) =>
        /\ pii_count = Cardinality(Analyze(prompt))
        /\ ("redacted_success" \in shown) <=> (pii_count > 0)
        /\ pii_count > 0 =>
            /\ final_prompt # prompt
            /\ NoSpanSurvives(prompt, Analyze(prompt), final_prompt)
            /\ Analyze(final_prompt) = {}
            /\ provider_call # NoCall => provider_call.content = final_prompt

\* a Strict request with overlapping findings whose redacted text was sent
C2_Witness ==
    /\ pc = "Executed"
    /\ compliance_mode = Strict
    /\ pii_count >= 2
    /\ \E a \in Analyze(prompt) : \E b \in Analyze(prompt) :
          Overlap(a, b) /\ a.end < b.end
    /\ provider_call # NoCall
    /\ provider_call.content = final_prompt

\* C3: in Audit Only mode the forwarded text is the original prompt, the audit
\* flag is shown exactly when there are findings, the redacted flag never.
C3_AuditOnlyPreserves ==
    (pc \in PostDecide /\ compliance_mode = AuditOnly) =>
        /\ final_prompt = prompt
        /\ ("audit_error" \in shown) <=> (pii_count > 0)
        /\ "redacted_success" \notin shown
        /\ provider_call # NoCall => provider_call.content = prompt

\* an Audit Only request with findings whose raw text was sent and flagged
C3_Witness ==
    /\ pc = "Executed"
    /\ compliance_mode = AuditOnly
    /\ pii_count > 0
    /\ clean_prompt # prompt
    /\ "audit_error" \in shown
    /\ provider_call # NoCall
    /\ provider_call.content = prompt

\* C4: a prompt on which the scanner finds nothing has a finding count of 0 and
\* is forwarded unchanged in both modes, with neither flag shown.
C4_NoPiiUnchanged ==
    Analyze(prompt) = {} =>
        /\ pc \in PostScan => pii_count = 0
        /\ pc \in PostDecide =>
            /\ final_prompt = prompt
            /\ "redacted_success" \notin shown
            /\ "audit_error" \notin shown
            /\ provider_call # NoCall => provider_call.content = prompt

\* a prompt without PII, in Strict mode, sent as it was
C4_Witness ==
    /\ pc = "Executed"
    /\ Analyze(prompt) = {}
    /\ pii_count = 0
    /\ compliance_mode = Strict
    /\ "no_pii_info" \in shown
    /\ provider_call # NoCall
    /\ provider_call.content = prompt

\* C5: the ledger is 0 at session start, always equals the sum of the recorded
\* deltas in either order, and only the record step of a request changes it.
C5_LedgerSum ==
    /\ [](/\ nreq = 0 => total_savings = 0
          /\ total_savings = SumSeq(history)
          /\ total_savings = SumSeq(Reverse(history)))
    /\ [][total_savings' # total_savings =>
            /\ pc = "Routed"
            /\ pc' = "LedgerUpdated"
            /\ total_savings' = total_savings + savings']_vars

\* two requests with different positive deltas have been recorded
C5_Witness ==
    /\ pc = "LedgerUpdated"
    /\ Len(history) = 2
    /\ history[1] > 0
    /\ history[2] > 0
    /\ history[1] # history[2]
    /\ metric_shown # total_savings

\* C6: the high-tier cost is never below the low-tier cost (above it for
\* t > 0), so every delta is >= 0, zero exactly when the high tier is chosen or
\* t = 0, and the ledger never decreases.
C6_SavingsNonNegative ==
    /\ [](\A t \in 0..MaxTokens :
            /\ EstCost(t, PRICE_GPT4) >= EstCost(t, PRICE_MINI)
            /\ t > 0 => EstCost(t, PRICE_GPT4) > EstCost(t, PRICE_MINI)
            /\ (EstCost(t, PRICE_GPT4) - EstCost(t, PRICE_MINI) = 0) <=> (t = 0))
    /\ [](pc \in PostLedger =>
            /\ savings >= 0
            /\ savings = est_cost_high - est_cost_actual
            /\ (savings = 0) <=> (model_used = "gpt-4o" \/ tokens = 0))
    /\ [][total_savings' >= total_savings]_vars

\* a request routed low has added a positive delta after a high-tier request
\* that added nothing
C6_Witness ==
    /\ pc = "LedgerUpdated"
    /\ model_used = "gpt-4o-mini"
    /\ savings > 0
    /\ history = <<0, savings>>

C8_NoSimulatedOutput ==
    /\ api_key = "" => provider_call = NoCall
    /\ (pc = "Executed" /\ api_key = "") =>
        /\ tokens >= 1 /\ est_cost_high >= 0 /\ est_cost_actual >= 0
        /\ pii_count >= 0 /\ model_used # ""
        /\ Len(history) >= 1 /\ history[Len(history)] = savings
        /\ "credential_warning" \in shown
        /\ "simulated_output" \notin shown

\* C8 amended: without a credential the pipeline completes, the provider is
\* not called, and the missing credential is reported by a warning that comes
\* together with an output labelled as simulated.
C8_WarningAndSimulation ==
    /\ api_key = "" => provider_call = NoCall
    /\ (pc = "Executed" /\ api_key = "") =>
        /\ tokens >= 1 /\ est_cost_high >= 0 /\ est_cost_actual >= 0
        /\ pii_count >= 0 /\ model_used # ""
        /\ Len(history) >= 1 /\ history[Len(history)] = savings
        /\ "credential_warning" \in shown
        /\ "simulated_output" \in shown
        /\ "model_stream" \notin shown

\* a request executed after the key was entered and cleared again
C8_Witness ==
    /\ pc = "Executed"
    /\ api_key = ""
    /\ os_environ_key # ""
    /\ final_prompt # <<>>
    /\ "credential_warning" \in shown

\* C9: when the PII engines fail the run ends there: nothing of the request is
\* forwarded, no decision is shown, the ledger is not touched, and whatever
\* reaches the provider has been scanned.
C9_FailClosed ==
    /\ recognizer_failed =>
        /\ pc = "Aborted"
        /\ provider_call = NoCall
        /\ final_prompt = <<>>
        /\ model_used = ""
        /\ shown = {"exception"}
        /\ Len(history) < nreq
    /\ provider_call # NoCall =>
        /\ ~ recognizer_failed
        /\ pii_count = Cardinality(Analyze(prompt))

\* the scan of a prompt with PII failed while a key was set
C9_Witness ==
    /\ recognizer_failed
    /\ pc = "Aborted"
    /\ tokens >= 1
    /\ Analyze(prompt) # {}
    /\ api_key # ""

StepOrder ==
    {<<"Received", "TokenCounted">>, <<"TokenCounted", "CostEstimated">>,
     <<"CostEstimated", "Scanned">>, <<"Scanned", "Routed">>,
     <<"Routed", "LedgerUpdated">>, <<"LedgerUpdated", "Emitted">>,
     <<"Emitted", "Executed">>,
     <<"Received", "Aborted">>, <<"CostEstimated", "Aborted">>}
        \cup {<<"Executed", "Idle">>, <<"Aborted", "Idle">>, <<"Idle", "Received">>}

====
